---- MODULE Spec2Model ----
(***************************************************************************)
(* Model of the data preparation script src/data_prep.py (the recycling    *)
(* pipeline followed by the waste pipeline and the final validation) and   *)
(* of the waste handling of the presentation layer (src/vis.py,            *)
(* src/dashboard.py).                                                      *)
(*                                                                         *)
(* Spec is the run of the script on parsed inputs.  SpecRepair and         *)
(* SpecWasteText are the text repair of the recycling source and the text  *)
(* repair and row reconstruction of the waste source, character by         *)
(* character.  SpecDiag calls the diagnostic functions on a table, SpecCsv *)
(* writes a cleaned table with to_csv and reads it back with read_csv,     *)
(* SpecExtract cleans and filters one TotalWaste token, SpecLoad is the    *)
(* dashboard's load_data, SpecVis calls the operations of the              *)
(* presentation layer.                                                     *)
(*                                                                         *)
(* Numeric target values (RecyclingRate, TotalWaste) are integers that     *)
(* count sixtieths of a unit, so that the mean of up to five of them is    *)
(* exact.  A cell of a table is a record whose field k tells what the      *)
(* cell holds: "num" a number, "nan" a missing value, "str" a string that  *)
(* is not a number, "d4" a string of exactly four digits.                  *)
(***************************************************************************)
EXTENDS Integers, Sequences, FiniteSets, TLC

VARIABLES
    recExists,    \* data2.csv can be opened
    wasteExists,  \* data3.csv can be opened
    recInput,     \* the table pandas parses from the repaired recycling text
    wasteInput,   \* the segments re.findall yields on the repaired waste text
    pc,           \* position of the script
    err,          \* the exception that ended the run, "none" while it runs
    df2,          \* the recycling table
    df3,          \* the waste table (data, df3, df3_simple)
    fs,           \* the files written by this run, with their contents
    log,          \* the report lines that matter, in the order printed
    rawText,      \* text repair: characters of the recycling source file
    li,           \* text repair: number of lines consumed by the loop
    outText,      \* text repair: characters written to the cleaned file
    vRec,         \* presentation layer: df_recycling
    vWaste,       \* presentation layer: df_waste
    vRes,         \* presentation layer: outcome of the last operation
    dDf,          \* diagnostics: the table a diagnostic function is given
    dOut,         \* diagnostics: what the last call returned
    cDf,          \* persistence: the table handed to to_csv
    cFile,        \* persistence: the header and the fields of the file written
    cBack,        \* persistence: the table read_csv gives back
    wasteText,    \* waste text: characters of the waste source file
    wi,           \* waste text: number of lines consumed by the cleaning loop
    cleaned_lines, \* waste text: the repaired lines
    wpc,          \* waste text: "clean", then "build" once the text is cut
    raw_text,     \* waste text: the repaired lines joined
    wRows,        \* waste text: rows, the segments re.findall gives
    ri,           \* waste text: number of segments consumed by the token loop
    parts,        \* waste text: the tokens of the last segment consumed
    wData,        \* waste text: data, the token lists kept
    xTok,         \* extraction: the TotalWaste token of a row
    xVal,         \* extraction: the value of the row and whether it is kept
    lRecFile,     \* loading: ../data/recycling_clean.csv as the dashboard finds it
    lWasteFile,   \* loading: ../data/waste_clean.csv as the dashboard finds it
    lpc,          \* loading: position of load_data
    lRec,         \* loading: self.df_recycling and the statement that set it
    lWaste        \* loading: self.df_waste and the statement that set it

pipeVars == <<recExists, wasteExists, recInput, wasteInput, pc, err, df2, df3, fs, log>>
textVars == <<rawText, li, outText>>
visVars == <<vRec, vWaste, vRes>>
diagVars == <<dDf, dOut>>
csvVars == <<cDf, cFile, cBack>>
wtVars == <<wasteText, wi, cleaned_lines, wpc, raw_text, wRows, ri, parts, wData>>
extVars == <<xTok, xVal>>
loadVars == <<lRecFile, lWasteFile, lpc, lRec, lWaste>>
moreVars == <<extVars, loadVars>>
auxVars == <<diagVars, csvVars, wtVars, moreVars>>
vars == <<pipeVars, textVars, visVars, auxVars>>

----------------------------------------------------------------------------
(* Bounds of the model *)

MaxRecRows == 2
MaxWasteRows == 2
MaxKnnRows == 7
MaxTextLen == 5
MaxVisRows == 2

(* Program constants *)

n_neighbors == 5
YearLow == 1900
YearHigh == 2050
WindowLow == 1990
WindowHigh == 2030
MinTokens == 4
MaxTokens == 10

----------------------------------------------------------------------------
(* Helpers *)

SeqsUpTo(S, n) == UNION {[1..k -> S] : k \in 0..n}

RECURSIVE Pick(_, _, _)
Pick(df, idx, i) ==
    IF i > Len(df) THEN <<>>
    ELSE (IF i \in idx THEN <<df[i]>> ELSE <<>>) \o Pick(df, idx, i + 1)

Abs(x) == IF x < 0 THEN -x ELSE x

MinOf(a, b) == IF a < b THEN a ELSE b

RECURSIVE SumOver(_, _, _)
SumOver(df, col, S) ==
    IF S = {} THEN 0
    ELSE LET j == CHOOSE x \in S : TRUE
         IN df[j][col].v + SumOver(df, col, S \ {j})

NumCell(x) == [k |-> "num", v |-> x]
NanCell == [k |-> "nan", v |-> 0]
StrCell == [k |-> "str", v |-> 0]

YearNum(y, half) == [k |-> "num", n |-> y, h |-> half]
YearNan == [k |-> "nan", n |-> 0, h |-> 0]
YearStr == [k |-> "str", n |-> 0, h |-> 0]
YearD4(y) == [k |-> "d4", n |-> y, h |-> 0]

FileNames == {"data2_cleaned", "recycling_clean", "data3_cleaned", "waste_clean"}
NoFile == [written |-> FALSE, cols |-> <<>>, rows |-> <<>>]

(* open(path, "w") and to_csv(path, index=False): the file holds the       *)
(* header made of the column names and one line per row                    *)
WriteFile(files, name, columns, content) ==
    [files EXCEPT ![name] = [written |-> TRUE, cols |-> columns, rows |-> content]]

RecSourceColumns == <<"Entity", "Code", "Year", "Variable:% Recycling - MUNW">>
RecColumns == <<"Country", "Code", "Year", "RecyclingRate">>
WasteColumns == <<"Entity", "Code", "Year", "TotalWaste">>

----------------------------------------------------------------------------
(* Recycling pipeline, data_prep.py lines 66-141 *)

(* drop_duplicates(subset=["Country", "Year"]): the first row of every key  *)
(* is kept; the keys are the values as read (missing values equal each     *)
(* other), the Year not yet coerced.                                       *)
DropDuplicates(df) ==
    Pick(df, {i \in 1..Len(df) :
                \A j \in 1..(i - 1) :
                    <<df[j].Country, df[j].Year>> # <<df[i].Country, df[i].Year>>}, 1)

(* astype(int) raises on a missing value and on a string that is no        *)
(* integer; a float is truncated.                                          *)
CanInt(c) == c.k = "num"
ToIntNotAssigned(c) == c
ToInt(c) == YearNum(c.n, 0)

(* astype(float) raises on a string that is no number; a missing value     *)
(* stays missing.                                                          *)
CanFloat(c) == c.k \in {"num", "nan"}

(* KNNImputer(n_neighbors=5).fit_transform on the columns (Year, col).     *)
(* A row with a missing col is at a distance from a donor (a row with a    *)
(* value) that grows with the difference of their years; the value given   *)
(* is the mean over the nearest donors, all of them when fewer than        *)
(* n_neighbors exist.  Which of several donors at the same distance is     *)
(* taken is left open.                                                     *)
Nulls(df, col) == {i \in 1..Len(df) : df[i][col].k = "nan"}
Donors(df, col) == {i \in 1..Len(df) : df[i][col].k = "num"}
Dist(df, i, j) == Abs(df[i].Year.n - df[j].Year.n)

NeighbourSets(df, col, i) ==
    LET D == Donors(df, col)
        m == MinOf(n_neighbors, Cardinality(D))
    IN {S \in SUBSET D :
          /\ Cardinality(S) = m
          /\ \A a \in S, b \in D \ S : Dist(df, i, a) <= Dist(df, i, b)}

MeanOverAllK(df, col, S) == SumOver(df, col, S) \div n_neighbors
MeanOver(df, col, S) == SumOver(df, col, S) \div Cardinality(S)

ImputedCellsNoFallback(df, col, i) ==
    IF df[i][col].k = "nan" /\ Cardinality(Donors(df, col)) >= n_neighbors
    THEN {NumCell(MeanOver(df, col, S)) : S \in NeighbourSets(df, col, i)}
    ELSE {df[i][col]}

ImputedCells(df, col, i) ==
    IF df[i][col].k = "nan"
    THEN {NumCell(MeanOver(df, col, S)) : S \in NeighbourSets(df, col, i)}
    ELSE {df[i][col]}

RECURSIVE ImputeFrom(_, _, _)
ImputeFrom(df, col, i) ==
    IF i > Len(df) THEN {<<>>}
    ELSE {<<[df[i] EXCEPT ![col] = c]>> \o rest :
            c \in ImputedCells(df, col, i), rest \in ImputeFrom(df, col, i + 1)}

KNNImpute(df, col) == ImputeFrom(df, col, 1)

Fail(e) ==
    /\ pc' = "failed"
    /\ err' = e

RecRepairOutputFirst ==
    /\ pc = "rec_repair"
    /\ fs' = WriteFile(fs, "data2_cleaned", RecSourceColumns, recInput)
    /\ IF ~recExists
       THEN Fail("FileNotFoundError")
       ELSE /\ pc' = "rec_read"
            /\ UNCHANGED err
    /\ UNCHANGED <<recExists, wasteExists, recInput, wasteInput, df2, df3, log>>
    /\ UNCHANGED <<textVars, visVars, auxVars>>

(* lines 70-78: open the source, then the cleaned file, and repair the     *)
(* text line by line                                                       *)
RecRepair ==
    /\ pc = "rec_repair"
    /\ IF ~recExists
       THEN /\ Fail("FileNotFoundError")
            /\ UNCHANGED fs
       ELSE /\ fs' = WriteFile(fs, "data2_cleaned", RecSourceColumns, recInput)
            /\ pc' = "rec_read"
            /\ UNCHANGED err
    /\ UNCHANGED <<recExists, wasteExists, recInput, wasteInput, df2, df3, log>>
    /\ UNCHANGED <<textVars, visVars, auxVars>>

RecReadThenCoerce ==
    /\ pc = "rec_read"
    /\ df2' = fs["data2_cleaned"].rows
    /\ pc' = "rec_coerce"
    /\ UNCHANGED <<recExists, wasteExists, recInput, wasteInput, err, df3, fs, log>>
    /\ UNCHANGED <<textVars, visVars, auxVars>>

(* lines 81-94: read_csv of the cleaned file and rename of the columns *)
RecRead ==
    /\ pc = "rec_read"
    /\ df2' = fs["data2_cleaned"].rows
    /\ pc' = "rec_dedup"
    /\ UNCHANGED <<recExists, wasteExists, recInput, wasteInput, err, df3, fs, log>>
    /\ UNCHANGED <<textVars, visVars, auxVars>>

(* line 100 *)
RecDedup ==
    /\ pc = "rec_dedup"
    /\ df2' = DropDuplicates(df2)
    /\ pc' = "rec_coerce"
    /\ UNCHANGED <<recExists, wasteExists, recInput, wasteInput, err, df3, fs, log>>
    /\ UNCHANGED <<textVars, visVars, auxVars>>

(* lines 103-104 *)
RecCoerce ==
    /\ pc = "rec_coerce"
    /\ IF /\ \A i \in 1..Len(df2) : CanInt(df2[i].Year)
          /\ \A i \in 1..Len(df2) : CanFloat(df2[i].RecyclingRate)
       THEN /\ df2' = [i \in 1..Len(df2) |-> [df2[i] EXCEPT !.Year = ToInt(@)]]
            /\ pc' = "rec_impute"
            /\ UNCHANGED err
       ELSE /\ Fail("ValueError")
            /\ UNCHANGED df2
    /\ UNCHANGED <<recExists, wasteExists, recInput, wasteInput, df3, fs, log>>
    /\ UNCHANGED <<textVars, visVars, auxVars>>

(* lines 119-138 *)
RecImpute ==
    /\ pc = "rec_impute"
    /\ IF Nulls(df2, "RecyclingRate") = {}
       THEN /\ pc' = "rec_write"
            /\ UNCHANGED <<df2, err, log>>
       ELSE IF Donors(df2, "RecyclingRate") = {}
       THEN \* the imputer drops the all-missing column: [:, 1] is out of range
            /\ Fail("IndexError")
            /\ UNCHANGED <<df2, log>>
       ELSE /\ df2' \in KNNImpute(df2, "RecyclingRate")
            /\ log' = Append(log, "rec_imputed")
            /\ pc' = "rec_write"
            /\ UNCHANGED err
    /\ UNCHANGED <<recExists, wasteExists, recInput, wasteInput, df3, fs>>
    /\ UNCHANGED <<textVars, visVars, auxVars>>

RecWriteDeferred ==
    /\ pc = "rec_write"
    /\ pc' = "waste_repair"
    /\ UNCHANGED <<recExists, wasteExists, recInput, wasteInput, err, df2, df3, fs, log>>
    /\ UNCHANGED <<textVars, visVars, auxVars>>

(* line 141 *)
RecWrite ==
    /\ pc = "rec_write"
    /\ fs' = WriteFile(fs, "recycling_clean", RecColumns, df2)
    /\ pc' = "waste_repair"
    /\ UNCHANGED <<recExists, wasteExists, recInput, wasteInput, err, df2, df3, log>>
    /\ UNCHANGED <<textVars, visVars, auxVars>>

----------------------------------------------------------------------------
(* Waste pipeline, data_prep.py lines 145-283 *)

(* lines 164-168: a segment is kept when it has at least 4 non-empty       *)
(* tokens, cut to its first 10                                             *)
KeptSegments(rows) ==
    LET kept == SelectSeq(rows, LAMBDA r : r.ntok >= MinTokens)
    IN [i \in 1..Len(kept) |-> [kept[i] EXCEPT !.ntok = MinOf(@, MaxTokens)]]

(* line 174: DataFrame(data, columns=columns) pads the rows to the longest *)
(* one and raises when that is not the number of columns                   *)
FrameFits(data) == data = <<>> \/ \E i \in 1..Len(data) : data[i].ntok = MaxTokens

(* lines 177-178 *)
SimpleFrame(data) ==
    [i \in 1..Len(data) |->
        [Entity |-> data[i].Entity, Code |-> data[i].Code,
         Year |-> data[i].Year, TotalWaste |-> data[i].TotalWaste]]

(* line 184: str.match(r"^\d{4}$"), line 187: astype(int) *)
FourDigitYears(df) ==
    LET kept == SelectSeq(df, LAMBDA r : r.Year.k = "d4")
    IN [i \in 1..Len(kept) |-> [kept[i] EXCEPT !.Year = YearNum(@.n, 0)]]

YearMin(df) == CHOOSE y \in {df[i].Year.n : i \in 1..Len(df)} :
                  \A i \in 1..Len(df) : y <= df[i].Year.n
YearMax(df) == CHOOSE y \in {df[i].Year.n : i \in 1..Len(df)} :
                  \A i \in 1..Len(df) : y >= df[i].Year.n

YearsAbnormalMinOnly(df) == df # <<>> /\ YearMin(df) < YearLow

(* line 216; on an empty table min and max are missing and both            *)
(* comparisons are false                                                   *)
YearsAbnormal(df) == df # <<>> /\ (YearMin(df) < YearLow \/ YearMax(df) > YearHigh)

(* line 223 *)
InWindow(df) == SelectSeq(df, LAMBDA r : r.Year.n >= WindowLow /\ r.Year.n <= WindowHigh)

(* lines 236-242: the first run of digits of the token, as a float; no     *)
(* digits give a missing value.  A sign before the digits is not part of   *)
(* the match.                                                              *)
ExtractNumber(tok) == IF tok.dig THEN NumCell(tok.v) ELSE NanCell

KeepWasteNumbers(c) == c.k = "num" /\ c.v > 0

(* line 245 *)
KeepWaste(c) == (c.k = "num" /\ c.v > 0) \/ c.k = "nan"

CleanTotalWasteSigned(df) ==
    [i \in 1..Len(df) |->
        [df[i] EXCEPT !.TotalWaste =
            IF @.dig THEN NumCell(IF @.neg THEN 0 - @.v ELSE @.v) ELSE NanCell]]

CleanTotalWaste(df) ==
    LET ex == [i \in 1..Len(df) |-> [df[i] EXCEPT !.TotalWaste = ExtractNumber(@)]]
    IN SelectSeq(ex, LAMBDA r : KeepWaste(r.TotalWaste))

(* lines 149-161: open the source, repair the lines, cut the text into     *)
(* segments                                                                *)
WasteRepair ==
    /\ pc = "waste_repair"
    /\ IF ~wasteExists
       THEN /\ Fail("FileNotFoundError")
            /\ UNCHANGED df3
       ELSE /\ df3' = wasteInput
            /\ pc' = "waste_build"
            /\ UNCHANGED err
    /\ UNCHANGED <<recExists, wasteExists, recInput, wasteInput, df2, fs, log>>
    /\ UNCHANGED <<textVars, visVars, auxVars>>

(* lines 164-178 *)
WasteBuild ==
    /\ pc = "waste_build"
    /\ LET data == KeptSegments(df3)
       IN IF FrameFits(data)
          THEN /\ df3' = SimpleFrame(data)
               /\ pc' = "waste_years"
               /\ UNCHANGED err
          ELSE /\ Fail("ValueError")
               /\ UNCHANGED df3
    /\ UNCHANGED <<recExists, wasteExists, recInput, wasteInput, df2, fs, log>>
    /\ UNCHANGED <<textVars, visVars, auxVars>>

(* lines 184-187 *)
WasteYears ==
    /\ pc = "waste_years"
    /\ df3' = FourDigitYears(df3)
    /\ pc' = "waste_range"
    /\ UNCHANGED <<recExists, wasteExists, recInput, wasteInput, err, df2, fs, log>>
    /\ UNCHANGED <<textVars, visVars, auxVars>>

(* lines 208-232 *)
WasteRange ==
    /\ pc = "waste_range"
    /\ IF YearsAbnormal(df3)
       THEN /\ log' = Append(log, "waste_years_abnormal")
            /\ UNCHANGED df3
       ELSE /\ df3' = InWindow(df3)
            /\ UNCHANGED log
    /\ pc' = "waste_cleanup"
    /\ UNCHANGED <<recExists, wasteExists, recInput, wasteInput, err, df2, fs>>
    /\ UNCHANGED <<textVars, visVars, auxVars>>

(* lines 235-245 *)
WasteCleanup ==
    /\ pc = "waste_cleanup"
    /\ IF Len(df3) > 0
       THEN /\ df3' = CleanTotalWaste(df3)
            /\ log' = Append(log, "waste_cleaned")
       ELSE UNCHANGED <<df3, log>>
    /\ pc' = "waste_impute"
    /\ UNCHANGED <<recExists, wasteExists, recInput, wasteInput, err, df2, fs>>
    /\ UNCHANGED <<textVars, visVars, auxVars>>

(* lines 253-279 *)
WasteImpute ==
    /\ pc = "waste_impute"
    /\ IF Len(df3) = 0 \/ Nulls(df3, "TotalWaste") = {}
       THEN /\ pc' = "waste_write"
            /\ UNCHANGED <<df3, err, log>>
       ELSE IF Donors(df3, "TotalWaste") = {}
       THEN /\ Fail("IndexError")
            /\ UNCHANGED <<df3, log>>
       ELSE /\ df3' \in KNNImpute(df3, "TotalWaste")
            /\ log' = Append(log, "waste_imputed")
            /\ pc' = "waste_write"
            /\ UNCHANGED err
    /\ UNCHANGED <<recExists, wasteExists, recInput, wasteInput, df2, fs>>
    /\ UNCHANGED <<textVars, visVars, auxVars>>

WasteWriteUnlessEmpty ==
    /\ pc = "waste_write"
    /\ fs' = IF Len(df3) = 0 THEN fs ELSE WriteFile(fs, "waste_clean", WasteColumns, df3)
    /\ pc' = "validate"
    /\ UNCHANGED <<recExists, wasteExists, recInput, wasteInput, err, df2, df3, log>>
    /\ UNCHANGED <<textVars, visVars, auxVars>>

(* line 282 *)
WasteWrite ==
    /\ pc = "waste_write"
    /\ fs' = WriteFile(fs, "waste_clean", WasteColumns, df3)
    /\ pc' = "validate"
    /\ UNCHANGED <<recExists, wasteExists, recInput, wasteInput, err, df2, df3, log>>
    /\ UNCHANGED <<textVars, visVars, auxVars>>

----------------------------------------------------------------------------
(* Final validation and report, data_prep.py lines 291-328 *)

(* lines 297-304: the three diagnostics on each table, none of which       *)
(* raises on an empty table                                                *)
FinalValidation ==
    /\ pc = "validate"
    /\ log' = log \o <<"structure_rec", "temporal_rec", "outliers_rec",
                       "structure_waste", "temporal_waste", "outliers_waste">>
    /\ pc' = "report"
    /\ UNCHANGED <<recExists, wasteExists, recInput, wasteInput, err, df2, df3, fs>>
    /\ UNCHANGED <<textVars, visVars, auxVars>>

(* lines 307-328 *)
FinalReport ==
    /\ pc = "report"
    /\ log' = IF Len(df3) = 0 THEN Append(log, "find_other_source") ELSE log
    /\ pc' = "done"
    /\ UNCHANGED <<recExists, wasteExists, recInput, wasteInput, err, df2, df3, fs>>
    /\ UNCHANGED <<textVars, visVars, auxVars>>

----------------------------------------------------------------------------
(* The runs of the script *)

RecYearCells == {YearNum(1989, 0), YearNum(1990, 0), YearNum(1990, 1), YearNan}
RecRateCells == {NumCell(600), NumCell(2400), NanCell, StrCell}
RecRows == [Country : {"A", "B"}, Code : {"c"}, Year : RecYearCells,
            RecyclingRate : RecRateCells]

WasteYearTokens == {YearD4(1800), YearD4(1985), YearD4(1990), YearStr}
WasteTokens == {[k |-> "str", neg |-> FALSE, dig |-> TRUE, v |-> 600],
                [k |-> "str", neg |-> TRUE, dig |-> TRUE, v |-> 2400],
                [k |-> "str", neg |-> FALSE, dig |-> TRUE, v |-> 0],
                [k |-> "str", neg |-> FALSE, dig |-> FALSE, v |-> 0]}
ShortSegment == [ntok |-> 3, Entity |-> "A", Code |-> "c", Year |-> YearD4(1990),
                 TotalWaste |-> [k |-> "str", neg |-> FALSE, dig |-> TRUE, v |-> 600]]
Segments == {ShortSegment} \cup
            [ntok : {4, 11}, Entity : {"A"}, Code : {"c"}, Year : WasteYearTokens,
             TotalWaste : WasteTokens]

RecSample == <<[Country |-> "A", Code |-> "c", Year |-> YearNum(1990, 0),
                RecyclingRate |-> NumCell(600)],
              [Country |-> "A", Code |-> "c", Year |-> YearNum(1991, 0),
                RecyclingRate |-> NanCell]>>

(* longer recycling tables for the imputation: one country, the years      *)
(* 1990, 1991, ... in order, any rate or none in each                      *)
KnnRates == {NumCell(600), NumCell(2400), NanCell}
KnnTable(r) ==
    [i \in 1..Len(r) |-> [Country |-> "A", Code |-> "c", Year |-> YearNum(1989 + i, 0),
                          RecyclingRate |-> r[i]]]
KnnTables ==
    {KnnTable(r) : r \in UNION {[1..m -> KnnRates] : m \in (MaxRecRows + 1)..MaxKnnRows}}

(* waste segments of 11 tokens with years on both sides of every limit *)
WideYearTokens == {YearD4(1800), YearD4(1985), YearD4(1990), YearD4(2040),
                   YearD4(2060), YearStr}
YearSegments ==
    [ntok : {11}, Entity : {"A"}, Code : {"c"}, Year : WideYearTokens,
     TotalWaste : {[k |-> "str", neg |-> FALSE, dig |-> TRUE, v |-> 600]}]

WasteSample == <<[ntok |-> 11, Entity |-> "A", Code |-> "c", Year |-> YearD4(1990),
                  TotalWaste |-> [k |-> "str", neg |-> FALSE, dig |-> TRUE, v |-> 600]]>>

(* the inputs: any short recycling table with either no waste source or a  *)
(* fixed one, any list of waste segments with a fixed recycling table, the *)
(* longer recycling tables with no waste source, and the waste segments    *)
(* with the wider choice of years                                          *)
InitInputs ==
    \/ /\ recExists = FALSE
       /\ recInput = <<>>
       /\ wasteExists \in BOOLEAN
       /\ wasteInput = IF wasteExists THEN WasteSample ELSE <<>>
    \/ /\ recExists = TRUE
       /\ recInput \in SeqsUpTo(RecRows, MaxRecRows)
       /\ wasteExists \in BOOLEAN
       /\ wasteInput = IF wasteExists THEN WasteSample ELSE <<>>
    \/ /\ recExists = TRUE
       /\ recInput = RecSample
       /\ wasteExists = TRUE
       /\ wasteInput \in SeqsUpTo(Segments, MaxWasteRows)
    \/ /\ recExists = TRUE
       /\ recInput \in KnnTables
       /\ wasteExists = FALSE
       /\ wasteInput = <<>>
    \/ /\ recExists = TRUE
       /\ recInput = RecSample
       /\ wasteExists = TRUE
       /\ wasteInput \in SeqsUpTo(YearSegments, MaxWasteRows)

TextIdle ==
    /\ rawText = <<>>
    /\ li = 0
    /\ outText = <<>>

VisIdle ==
    /\ vRec = <<>>
    /\ vWaste = <<>>
    /\ vRes = [op |-> "none", kind |-> "none", msg |-> "", waste |-> FALSE, n |-> 0]

DiagIdle ==
    /\ dDf = <<>>
    /\ dOut = [op |-> "none", seen |-> {}, calls |-> 0, valid |-> FALSE,
               gaps |-> <<>>, outliers |-> <<>>]

CsvIdle ==
    /\ cDf = [cols |-> <<>>, rows |-> <<>>]
    /\ cFile = [written |-> FALSE, header |-> <<>>, lines |-> <<>>]
    /\ cBack = [read |-> FALSE, cols |-> <<>>, rows |-> <<>>]

WasteTextIdle ==
    /\ wasteText = <<>>
    /\ wi = 0
    /\ cleaned_lines = <<>>
    /\ wpc = "clean"
    /\ raw_text = <<>>
    /\ wRows = <<>>
    /\ ri = 0
    /\ parts = <<>>
    /\ wData = <<>>

ExtractIdle ==
    /\ xTok = <<>>
    /\ xVal = [stage |-> "none", k |-> "nan", num |-> 0, scale |-> 0, kept |-> FALSE]

LoadIdle ==
    /\ lRecFile = [state |-> "missing", rows |-> <<>>]
    /\ lWasteFile = [state |-> "missing", rows |-> <<>>]
    /\ lpc = "idle"
    /\ lRec = [origin |-> "unset", rows |-> <<>>]
    /\ lWaste = [origin |-> "unset", rows |-> <<>>]

MoreIdle == ExtractIdle /\ LoadIdle

AuxIdle == DiagIdle /\ CsvIdle /\ WasteTextIdle /\ MoreIdle

(* the script is not running *)
PipeIdle ==
    /\ recExists = TRUE
    /\ recInput = <<>>
    /\ wasteExists = TRUE
    /\ wasteInput = <<>>
    /\ pc = "done"
    /\ err = "none"
    /\ df2 = <<>>
    /\ df3 = <<>>
    /\ fs = [f \in FileNames |-> NoFile]
    /\ log = <<>>

Init ==
    /\ InitInputs
    /\ pc = "rec_repair"
    /\ err = "none"
    /\ df2 = <<>>
    /\ df3 = <<>>
    /\ fs = [f \in FileNames |-> NoFile]
    /\ log = <<>>
    /\ TextIdle
    /\ VisIdle
    /\ AuxIdle

Next ==
    \/ RecRepair
    \/ RecRead
    \/ RecDedup
    \/ RecCoerce
    \/ RecImpute
    \/ RecWrite
    \/ WasteRepair
    \/ WasteBuild
    \/ WasteYears
    \/ WasteRange
    \/ WasteCleanup
    \/ WasteImpute
    \/ WasteWrite
    \/ FinalValidation
    \/ FinalReport

Spec == Init /\ [][Next]_vars

----------------------------------------------------------------------------
(* Properties of the script *)

InLog(x) == \E i \in 1..Len(log) : log[i] = x
RecOut == fs["recycling_clean"]
WasteOut == fs["waste_clean"]

(* C1: the persisted recycling_clean holds no two rows with the same       *)
(* (Country, Year) pair.                                                   *)
C1_UniqueKeys ==
    RecOut.written =>
        \A i, j \in 1..Len(RecOut.rows) :
            i < j => <<RecOut.rows[i].Country, RecOut.rows[i].Year>>
                        # <<RecOut.rows[j].Country, RecOut.rows[j].Year>>

(* C2: whenever waste_clean is written, it has no rows or every row has a  *)
(* TotalWaste that is a number >= 0, whether kept by the cleanup filter or *)
(* produced by the imputation.                                             *)
C2_WasteNonNegative ==
    WasteOut.written =>
        \A i \in 1..Len(WasteOut.rows) :
            /\ WasteOut.rows[i].TotalWaste.k = "num"
            /\ WasteOut.rows[i].TotalWaste.v >= 0

C2_Witness ==
    /\ WasteOut.written
    /\ Len(WasteOut.rows) = 2
    /\ InLog("waste_imputed")
    /\ \E i \in 1..Len(wasteInput) : wasteInput[i].TotalWaste.neg

C3_RecPre == pc = "rec_impute" /\ Nulls(df2, "RecyclingRate") # {}
                /\ Donors(df2, "RecyclingRate") # {}
C3_WastePre == pc = "waste_impute" /\ Nulls(df3, "TotalWaste") # {}
                /\ Donors(df3, "TotalWaste") # {}

(* C3: in either pipeline, when the target column has at least one missing *)
(* and at least one present value before the imputation, the imputation    *)
(* step can be taken, it completes, and afterwards the target column has   *)
(* no missing value, for any number of rows, fewer than n_neighbors        *)
(* included.                                                               *)
C3_ImputationFillsNulls ==
    /\ [](C3_RecPre => ENABLED RecImpute)
    /\ [](C3_WastePre => ENABLED WasteImpute)
    /\ [][/\ C3_RecPre => /\ pc' = "rec_write"
                          /\ Len(df2') = Len(df2)
                          /\ Nulls(df2', "RecyclingRate") = {}
          /\ C3_WastePre => /\ pc' = "waste_write"
                            /\ Len(df3') = Len(df3)
                            /\ Nulls(df3', "TotalWaste") = {}]_vars

C3_Witness ==
    /\ pc = "waste_write"
    /\ InLog("rec_imputed")
    /\ InLog("waste_imputed")
    /\ Len(df2) < n_neighbors
    /\ Len(df3) < n_neighbors
    /\ Nulls(df3, "TotalWaste") = {}

C12_Nearest(df, col, i, S) ==
    /\ S # {}
    /\ S \subseteq Donors(df, col)
    /\ Cardinality(S) <= 5
    /\ Cardinality(S) = 5 \/ S = Donors(df, col)
    /\ \E a \in S :
          /\ \A j \in S : Abs(df[j].Year.n - df[i].Year.n) <= Abs(df[a].Year.n - df[i].Year.n)
          /\ \A j \in Donors(df, col) :
                Abs(df[j].Year.n - df[i].Year.n) < Abs(df[a].Year.n - df[i].Year.n) => j \in S

C12_Between(df, col, S, v) ==
    /\ \E a \in S : df[a][col].v <= v
    /\ \E b \in S : v <= df[b][col].v

C12_Bounded(before, after, col) ==
    \A i \in Nulls(before, col) :
        /\ after[i][col].k = "num"
        /\ \E S \in SUBSET Donors(before, col) :
              /\ C12_Nearest(before, col, i, S)
              /\ C12_Between(before, col, S, after[i][col].v)
        /\ C12_Between(before, col, Donors(before, col), after[i][col].v)

C14_SameRow(a, b) ==
    /\ b.Entity = a.Entity
    /\ b.Code = a.Code
    /\ b.TotalWaste = a.TotalWaste
    /\ b.Year.n = a.Year.n

C14_Exactly(before, after, idx) ==
    /\ Len(after) = Cardinality(idx)
    /\ \A k \in 1..Len(after) :
          \E i \in idx :
             /\ Cardinality({j \in idx : j <= i}) = k
             /\ C14_SameRow(before[i], after[k])
             /\ after[k].Year.k = "num"
             /\ after[k].Year.h = 0

C14_All(df) == 1..Len(df)

(* C14: the waste year filtering keeps first exactly the rows whose Year   *)
(* token is four digits; then, when the least of their years is below 1900 *)
(* or the greatest above 2050, it keeps every one of them and flags the    *)
(* anomaly in the report, and otherwise it keeps exactly the rows with     *)
(* 1990 <= Year <= 2030 and flags nothing.                                 *)
C14_YearFiltering ==
    [][/\ pc = "waste_years" =>
             C14_Exactly(df3, df3', {i \in C14_All(df3) : df3[i].Year.k = "d4"})
       /\ pc = "waste_range" =>
             IF \/ \E i \in C14_All(df3) : df3[i].Year.n < 1900
                \/ \E i \in C14_All(df3) : df3[i].Year.n > 2050
             THEN /\ C14_Exactly(df3, df3', C14_All(df3))
                  /\ log' = Append(log, "waste_years_abnormal")
             ELSE /\ C14_Exactly(df3, df3', {i \in C14_All(df3) :
                                      df3[i].Year.n >= 1990 /\ df3[i].Year.n <= 2030})
                  /\ log' = log]_vars

C14_Witness ==
    /\ pc = "waste_cleanup"
    /\ InLog("waste_years_abnormal")
    /\ Len(df3) = 2
    /\ \A i \in 1..Len(df3) : df3[i].Year.n >= 1900
    /\ \E i \in 1..Len(df3) : df3[i].Year.n > 2050
    /\ \E i \in 1..Len(df3) : df3[i].Year.n <= 2030

(* C17: every segment that reaches the positional assignment of the 10    *)
(* column names carries 10 tokens, the assignment never fails, and the     *)
(* Entity, Code, Year and TotalWaste retained are the 1st, 2nd, 3rd and    *)
(* 4th token of the segment.                                               *)
C17_TenTokensAssigned ==
    /\ pc = "waste_build" =>
          \A i \in 1..Len(df3) : df3[i].ntok >= 4 => df3[i].ntok >= 10
    /\ ~(pc = "failed" /\ err = "ValueError" /\ RecOut.written)
    /\ pc = "waste_years" =>
          LET kept == Pick(wasteInput, {i \in 1..Len(wasteInput) : wasteInput[i].ntok >= 4}, 1)
          IN /\ Len(df3) = Len(kept)
             /\ \A i \in 1..Len(df3) :
                   /\ df3[i].Entity = kept[i].Entity
                   /\ df3[i].Code = kept[i].Code
                   /\ df3[i].Year = kept[i].Year
                   /\ df3[i].TotalWaste = kept[i].TotalWaste

C18_Cleaned(i) == ExtractNumber(df3[i].TotalWaste)

C18_Retained ==
    {i \in 1..Len(df3) : ~(C18_Cleaned(i).k = "num" /\ C18_Cleaned(i).v <= 0)}

C18_NthRetained(k) ==
    CHOOSE i \in C18_Retained : Cardinality({j \in C18_Retained : j <= i}) = k

C19_Frame(before, after, col, others) ==
    /\ Len(after) = Len(before)
    /\ \A i \in 1..Len(before) :
          /\ \A c \in others : after[i][c] = before[i][c]
          /\ before[i][col].k # "nan" => after[i][col] = before[i][col]
          /\ before[i][col].k = "nan" => after[i][col].k = "num"

(* C19: the imputation step of each dataset runs at most once in a run; it *)
(* leaves a table without a missing target as it is, and in a table with   *)
(* one it gives a value to every missing target cell and changes nothing   *)
(* else: the targets that were present, every Year, every other column,    *)
(* the number of rows and their order stay.                                *)
C19_ImputationFrame ==
    [][/\ pc = "rec_impute" =>
             /\ ~InLog("rec_imputed")
             /\ C19_Frame(df2, df2', "RecyclingRate", {"Country", "Code", "Year"})
       /\ pc = "waste_impute" =>
             /\ ~InLog("waste_imputed")
             /\ C19_Frame(df3, df3', "TotalWaste", {"Entity", "Code", "Year"})]_vars

C20_RecStages == {"rec_repair", "rec_read", "rec_dedup", "rec_coerce", "rec_impute",
                  "rec_write"}
C20_WasteStages == {"waste_repair", "waste_build", "waste_years", "waste_range",
                    "waste_cleanup", "waste_impute", "waste_write"}
C20_FinalStages == {"validate", "report"}

C20_SamePipeline(p, q) ==
    \/ p \in C20_RecStages \cup C20_FinalStages /\ q \in C20_RecStages \cup C20_FinalStages
    \/ p \in C20_WasteStages \cup C20_FinalStages /\ q \in C20_WasteStages \cup C20_FinalStages

(* the place of a step in the order text repair, parsing, renaming and     *)
(* type coercion, deduplication, validation, imputation, persistence,      *)
(* report                                                                  *)
C20_ClaimedRank(p) ==
    CASE p \in {"rec_repair", "waste_repair"} -> 1
      [] p \in {"rec_read", "waste_build"} -> 2
      [] p \in {"rec_coerce", "waste_years", "waste_range", "waste_cleanup"} -> 3
      [] p = "rec_dedup" -> 4
      [] p = "validate" -> 5
      [] p \in {"rec_impute", "waste_impute"} -> 6
      [] p \in {"rec_write", "waste_write"} -> 7
      [] OTHER -> 8

(* C20 as stated: each pipeline goes through text repair, parsing, column  *)
(* renaming and type coercion, deduplication, validation, imputation,      *)
(* persistence and the report in this order, so that type coercion comes   *)
(* before deduplication and validation before imputation and persistence.  *)
C20_StagesInStatedOrder ==
    [][(pc' # pc /\ pc' \notin {"failed", "done"} /\ C20_SamePipeline(pc, pc'))
          => C20_ClaimedRank(pc) <= C20_ClaimedRank(pc')]_vars

C20_Order == <<"rec_repair", "rec_read", "rec_dedup", "rec_coerce", "rec_impute",
               "rec_write", "waste_repair", "waste_build", "waste_years",
               "waste_range", "waste_cleanup", "waste_impute", "waste_write",
               "validate", "report", "done">>

C20_Deduplicated(df) ==
    \A i \in 1..Len(df), j \in 1..Len(df) :
        (i # j) => <<df[i].Country, df[i].Year>> # <<df[j].Country, df[j].Year>>

(* C20, amended: a run goes through the recycling stages text repair,      *)
(* parsing and renaming, deduplication, type coercion, imputation,         *)
(* persistence, then through the waste stages text repair, table           *)
(* construction, year filtering and coercion, TotalWaste cleanup,          *)
(* imputation, persistence, and only then through the validation of both   *)
(* datasets and the report, in this order and no other: deduplication      *)
(* comes before type coercion, and validation after the imputation and     *)
(* the persistence of both datasets.                                       *)
C20_StagesInCodeOrder ==
    /\ [](pc = "rec_coerce" => C20_Deduplicated(df2))
    /\ [](pc = "validate" => RecOut.written /\ WasteOut.written /\ ~InLog("structure_rec"))
    /\ [][pc' # pc =>
             \/ pc' = "failed"
             \/ \E k \in 1..(Len(C20_Order) - 1) : pc = C20_Order[k] /\ pc' = C20_Order[k + 1]]_vars

C20_Witness ==
    /\ pc = "done"
    /\ RecOut.written
    /\ WasteOut.written
    /\ InLog("rec_imputed")
    /\ InLog("waste_imputed")
    /\ InLog("outliers_waste")

(* C4: when both source files can be opened, the run never aborts, whatever *)
(* the files hold, and it ends with both cleaned files written.            *)
C4_NeverAborts ==
    (recExists /\ wasteExists) =>
        /\ pc # "failed"
        /\ pc = "done" => RecOut.written /\ WasteOut.written

(* C6: every row of the persisted recycling dataset has a Year that is an  *)
(* integer within [1990, 2030].                                            *)
C6_YearInWindow ==
    RecOut.written =>
        \A i \in 1..Len(RecOut.rows) :
            /\ RecOut.rows[i].Year.k = "num"
            /\ RecOut.rows[i].Year.h = 0
            /\ RecOut.rows[i].Year.n >= WindowLow
            /\ RecOut.rows[i].Year.n <= WindowHigh

(* C6, as amended: every row of the persisted recycling dataset has a Year *)
(* that is an integer; no bound is applied to it, every row left by the    *)
(* deduplication is persisted whatever its year.                           *)
C6_YearIsInteger ==
    RecOut.written =>
        /\ \A i \in 1..Len(RecOut.rows) :
              RecOut.rows[i].Year.k = "num" /\ RecOut.rows[i].Year.h = 0
        /\ Len(RecOut.rows) = Len(DropDuplicates(recInput))

C6_Witness ==
    /\ RecOut.written
    /\ \E i \in 1..Len(RecOut.rows) : RecOut.rows[i].Year.n < WindowLow
    /\ \E i \in 1..Len(recInput) : recInput[i].Year.h = 1

(* C7: when the source file of a dataset cannot be opened, the run ends at *)
(* once with that failure, nothing is substituted for the data, and        *)
(* neither the cleaned text nor the cleaned dataset of it is written.      *)
C7_MissingSourceIsFatal ==
    /\ ~recExists =>
          /\ pc \in {"rec_repair", "failed"}
          /\ pc = "failed" => err = "FileNotFoundError"
          /\ df2 = <<>>
          /\ ~fs["data2_cleaned"].written
          /\ ~RecOut.written
    /\ ~wasteExists =>
          /\ pc \notin {"waste_build", "waste_years", "waste_range", "waste_cleanup",
                        "waste_impute", "waste_write", "validate", "report", "done"}
          /\ (pc = "failed" /\ RecOut.written) => err = "FileNotFoundError"
          /\ df3 = <<>>
          /\ ~fs["data3_cleaned"].written
          /\ ~WasteOut.written

C7_Witness ==
    /\ ~recExists
    /\ pc = "failed"
    /\ err = "FileNotFoundError"

C8_WasteStages == {"waste_years", "waste_range", "waste_cleanup", "waste_impute",
                   "waste_write", "validate", "report"}
C8_EmptyOutcome ==
    /\ WasteOut.written
    /\ WasteOut.cols = WasteColumns
    /\ WasteOut.rows = <<>>
    /\ InLog("structure_waste")
    /\ InLog("temporal_waste")
    /\ InLog("outliers_waste")
    /\ InLog("find_other_source")
    /\ ~InLog("waste_imputed")

----------------------------------------------------------------------------
(* Recycling text repair, data_prep.py lines 70-76, character by character *)

QUOTE == "\""
CR == "\r"
LF == "\n"
Chars == {QUOTE, "a", CR, LF}

(* open(orig_path, "r") reads with universal newlines: "\r\n" and "\r"     *)
(* arrive as "\n"                                                          *)
RECURSIVE Translate(_)
Translate(t) ==
    IF t = <<>> THEN <<>>
    ELSE IF Head(t) = CR
         THEN IF Len(t) >= 2 /\ t[2] = LF
              THEN <<LF>> \o Translate(SubSeq(t, 3, Len(t)))
              ELSE <<LF>> \o Translate(Tail(t))
         ELSE <<Head(t)>> \o Translate(Tail(t))

(* for line in f_in: the lines with their "\n", the last one maybe without *)
RECURSIVE SplitLines(_, _)
SplitLines(t, cur) ==
    IF t = <<>> THEN (IF cur = <<>> THEN <<>> ELSE <<cur>>)
    ELSE IF Head(t) = LF
         THEN <<Append(cur, LF)>> \o SplitLines(Tail(t), <<>>)
         ELSE SplitLines(Tail(t), Append(cur, Head(t)))

ReadLines(t) == SplitLines(Translate(t), <<>>)

(* line.rstrip("\r\n") *)
RECURSIVE RStrip(_)
RStrip(line) ==
    IF line # <<>> /\ line[Len(line)] \in {CR, LF}
    THEN RStrip(SubSeq(line, 1, Len(line) - 1))
    ELSE line

UnquoteAnyLength(line) ==
    IF line # <<>> /\ line[1] = QUOTE /\ line[Len(line)] = QUOTE
    THEN SubSeq(line, 2, Len(line) - 1)
    ELSE line

(* lines 74-75 *)
Unquote(line) ==
    IF Len(line) >= 2 /\ line[1] = QUOTE /\ line[Len(line)] = QUOTE
    THEN SubSeq(line, 2, Len(line) - 1)
    ELSE line

(* lines 73-76: one pass of the loop *)
RepairLine ==
    /\ li < Len(ReadLines(rawText))
    /\ outText' = outText \o Unquote(RStrip(ReadLines(rawText)[li + 1])) \o <<LF>>
    /\ li' = li + 1
    /\ UNCHANGED rawText
    /\ UNCHANGED <<pipeVars, visVars, auxVars>>

InitRepair ==
    /\ rawText \in SeqsUpTo(Chars, MaxTextLen)
    /\ li = 0
    /\ outText = <<>>
    /\ recExists = TRUE
    /\ recInput = <<>>
    /\ wasteExists = FALSE
    /\ wasteInput = <<>>
    /\ pc = "rec_repair"
    /\ err = "none"
    /\ df2 = <<>>
    /\ df3 = <<>>
    /\ fs = [f \in FileNames |-> NoFile]
    /\ log = <<>>
    /\ VisIdle
    /\ AuxIdle

NextRepair == RepairLine

SpecRepair == InitRepair /\ [][NextRepair]_vars

C10_Stripped(line, s) ==
    /\ \E t \in SeqsUpTo({CR, LF}, Len(line)) : line = s \o t
    /\ s = <<>> \/ s[Len(s)] \notin {CR, LF}
C10_Wrapped(s) == Len(s) >= 2 /\ s[1] = QUOTE /\ s[Len(s)] = QUOTE
C10_Count(t, c) == Cardinality({i \in 1..Len(t) : t[i] = c})

(* C10: the recycling text repair turns each input line into exactly one   *)
(* output line, in order: the trailing carriage returns and line feeds are *)
(* removed; a line then wrapped in a pair of quote characters loses        *)
(* exactly these two and keeps every inner character, inner quotes         *)
(* included; any other line is written as it is.                           *)
C10_LineByLine ==
    /\ [](C10_Count(outText, LF) = li)
    /\ [][li' # li =>
            LET line == ReadLines(rawText)[li + 1]
                body == SubSeq(outText', Len(outText) + 1, Len(outText') - 1)
            IN /\ li' = li + 1
               /\ outText' = outText \o body \o <<LF>>
               /\ \E s \in SeqsUpTo(Chars, Len(line)) :
                     /\ C10_Stripped(line, s)
                     /\ IF C10_Wrapped(s)
                        THEN s = <<QUOTE>> \o body \o <<QUOTE>>
                        ELSE s = body]_vars

C10_Witness ==
    /\ li = Len(ReadLines(rawText))
    /\ li = 2
    /\ ReadLines(rawText)[1] = <<QUOTE, QUOTE, QUOTE, LF>>
    /\ outText = <<QUOTE, LF, "a", LF>>

----------------------------------------------------------------------------
(* Presentation layer: the operations of src/vis.py and src/dashboard.py   *)
(* that read the waste dataset.  A table is a sequence of rows with a      *)
(* Year and a target value; the outcome of an operation tells its kind     *)
(* ("kpis", "figure", a "placeholder" figure, an "info" message or an      *)
(* "error" raised), its message, whether it read the waste rows to compute *)
(* something, and a count it reports.                                      *)

VisRecRows == [Country : {"A", "B"}, Year : {1995, 2015}, RecyclingRate : {600}]
VisWasteRows == [Entity : {"A", "C"}, Year : {2015, 2016}, TotalWaste : {600}]

Outcome(o, k, m, w, c) == [op |-> o, kind |-> k, msg |-> m, waste |-> w, n |-> c]

MaxYear(df) == CHOOSE y \in {df[i].Year : i \in 1..Len(df)} :
                  \A i \in 1..Len(df) : y >= df[i].Year

NoWasteMessage == "Aucune donnee dechets disponible"
NoCommonMessage == "Pas de donnees communes pour correlation"

(* vis.py lines 13-47: the waste indicators are computed when the waste    *)
(* dataset has rows; idxmax raises on an empty recycling dataset           *)
VisKpis ==
    IF Len(vRec) = 0
    THEN Outcome("calculate_kpis", "error", "ValueError", Len(vWaste) > 0, 0)
    ELSE Outcome("calculate_kpis", "kpis", "", Len(vWaste) > 0,
                 IF Len(vWaste) > 0
                 THEN Cardinality({vWaste[i].Entity : i \in 1..Len(vWaste)})
                 ELSE 0)

(* vis.py lines 119-160: the three waste figures *)
VisWasteFigure(name) ==
    IF Len(vWaste) = 0
    THEN Outcome(name, "placeholder", NoWasteMessage, FALSE, 0)
    ELSE Outcome(name, "figure", "", TRUE, Len(vWaste))

(* vis.py lines 162-185; the latest year is missing when the recycling     *)
(* dataset is empty and then no row is selected                            *)
VisCorrelationRows ==
    IF Len(vRec) = 0 THEN {}
    ELSE LET y == MinOf(MaxYear(vRec), MaxYear(vWaste))
         IN {<<i, j>> \in (1..Len(vRec)) \X (1..Len(vWaste)) :
                /\ vRec[i].Year = y
                /\ vWaste[j].Year = y
                /\ vRec[i].Country = vWaste[j].Entity}

VisCorrelation ==
    IF Len(vWaste) = 0
    THEN Outcome("dechets_correlation_recyclage", "placeholder", NoWasteMessage, FALSE, 0)
    ELSE IF VisCorrelationRows = {}
    THEN Outcome("dechets_correlation_recyclage", "placeholder", NoCommonMessage, TRUE, 0)
    ELSE Outcome("dechets_correlation_recyclage", "figure", "", TRUE,
                 Cardinality(VisCorrelationRows))

(* vis.py lines 188-218: neither branch reads a waste row *)
VisComparatif == Outcome("tableau_bord_comparatif", "figure", "", FALSE, 0)

(* dashboard.py lines 134-172 *)
DashKpis ==
    IF Len(vRec) = 0
    THEN Outcome("dashboard_kpis", "error", "ValueError", FALSE, 0)
    ELSE Outcome("dashboard_kpis", "kpis", "", FALSE, IF Len(vWaste) > 0 THEN 1 ELSE 0)

(* dashboard.py lines 392-412 *)
DashMerged == {<<i, j>> \in (1..Len(vRec)) \X (1..Len(vWaste)) :
                  /\ vRec[i].Country = vWaste[j].Entity
                  /\ vRec[i].Year = vWaste[j].Year}

DashCorrelation(year) ==
    IF Len(vWaste) > 0
    THEN IF DashMerged # {}
         THEN Outcome("dashboard_correlation", "figure", "", TRUE,
                      Cardinality({p \in DashMerged : vRec[p[1]].Year = year}))
         ELSE Outcome("dashboard_correlation", "info",
                      "Donnees insuffisantes pour l'analyse de correlation", TRUE, 0)
    ELSE Outcome("dashboard_correlation", "info",
                 "Donnees dechets non disponibles pour l'analyse de correlation", FALSE, 0)

CallCalculateKpis ==
    /\ vRes' = VisKpis
    /\ UNCHANGED <<vRec, vWaste, pipeVars, textVars, auxVars>>

CallWasteFigure ==
    /\ \E name \in {"dechets_evolution_temporelle", "dechets_top_producteurs",
                    "dechets_comparaison_pays"} : vRes' = VisWasteFigure(name)
    /\ UNCHANGED <<vRec, vWaste, pipeVars, textVars, auxVars>>

CallCorrelation ==
    /\ vRes' = VisCorrelation
    /\ UNCHANGED <<vRec, vWaste, pipeVars, textVars, auxVars>>

CallComparatif ==
    /\ vRes' = VisComparatif
    /\ UNCHANGED <<vRec, vWaste, pipeVars, textVars, auxVars>>

CallDashKpis ==
    /\ vRes' = DashKpis
    /\ UNCHANGED <<vRec, vWaste, pipeVars, textVars, auxVars>>

(* dashboard.py lines 258-263, 290-291: the panel is drawn for a year of   *)
(* the recycling dataset                                                   *)
CallDashCorrelation ==
    /\ \E i \in 1..Len(vRec) : vRes' = DashCorrelation(vRec[i].Year)
    /\ UNCHANGED <<vRec, vWaste, pipeVars, textVars, auxVars>>

InitVis ==
    /\ vRec \in SeqsUpTo(VisRecRows, MaxVisRows)
    /\ vWaste \in SeqsUpTo(VisWasteRows, MaxVisRows)
    /\ vRes = [op |-> "none", kind |-> "none", msg |-> "", waste |-> FALSE, n |-> 0]
    /\ recExists = TRUE
    /\ recInput = <<>>
    /\ wasteExists = TRUE
    /\ wasteInput = <<>>
    /\ pc = "done"
    /\ err = "none"
    /\ df2 = <<>>
    /\ df3 = <<>>
    /\ fs = [f \in FileNames |-> NoFile]
    /\ log = <<>>
    /\ TextIdle
    /\ AuxIdle

NextVis ==
    \/ CallCalculateKpis
    \/ CallWasteFigure
    \/ CallCorrelation
    \/ CallComparatif
    \/ CallDashKpis
    \/ CallDashCorrelation

SpecVis == InitVis /\ [][NextVis]_vars

(* C9: with a waste dataset of zero rows, every operation of the           *)
(* presentation layer that depends on the waste dataset completes without  *)
(* error, gives a placeholder or leaves the waste indicators out, computes *)
(* nothing from waste rows, and the correlation reports that the data do   *)
(* not suffice instead of drawing a figure.                                *)
C9_EmptyWasteTolerated ==
    (Len(vWaste) = 0 /\ vRes.op # "none") =>
        /\ vRes.kind # "error"
        /\ ~vRes.waste
        /\ vRes.n = 0
        /\ vRes.op \in {"dechets_evolution_temporelle", "dechets_top_producteurs",
                        "dechets_comparaison_pays"} => vRes.kind = "placeholder"
        /\ vRes.op \in {"dechets_correlation_recyclage", "dashboard_correlation"} =>
              vRes.kind \in {"placeholder", "info"}

----------------------------------------------------------------------------
(* Diagnostic functions, data_prep.py lines 16-63, called on a table *)

MaxDiagRows == 4

(* how many calls of the diagnostic functions a run follows *)
MaxCalls == 4

(* line 35: sorted(df[year_col].unique()), the distinct years in rising    *)
(* order                                                                   *)
RECURSIVE SortedYears(_)
SortedYears(Y) ==
    IF Y = {} THEN <<>>
    ELSE LET lo == CHOOSE y \in Y : \A z \in Y : y <= z
         IN <<lo>> \o SortedYears(Y \ {lo})

(* line 38 *)
IsGapFromOne(a, b) == b - a >= 1
IsGap(a, b) == b - a > 1

(* lines 36-39: the loop over i = 1 .. len(years) - 1, here from index i   *)
(* of the one-based sequence                                               *)
RECURSIVE GapsFrom(_, _)
GapsFrom(years, i) ==
    IF i > Len(years) THEN <<>>
    ELSE (IF IsGap(years[i - 1], years[i]) THEN <<<<years[i - 1], years[i]>>>> ELSE <<>>)
         \o GapsFrom(years, i + 1)

(* lines 30-46 *)
check_temporal_consistency(df) ==
    IF Len(df) = 0 THEN <<>>
    ELSE GapsFrom(SortedYears({df[i].Year : i \in 1..Len(df)}), 2)

(* lines 16-26: prints the shape, the columns, the types and the period,  *)
(* and returns True                                                        *)
validate_data_structure(df) == TRUE

(* the values of the column in rising order, each as often as it occurs *)
RECURSIVE SortedValues(_)
SortedValues(vals) ==
    IF vals = <<>> THEN <<>>
    ELSE LET i == CHOOSE j \in 1..Len(vals) : \A k \in 1..Len(vals) : vals[j] <= vals[k]
         IN <<vals[i]>> \o SortedValues(SubSeq(vals, 1, i - 1) \o SubSeq(vals, i + 1, Len(vals)))

(* lines 55-56: df[column].quantile(k / 4), times 4: the value at the      *)
(* place (n - 1) * k / 4 of the sorted values, counted from 0, found by    *)
(* linear interpolation between its two neighbours                         *)
Quantile4(vals, k) ==
    LET sorted == SortedValues(vals)
        lo == ((Len(vals) - 1) * k) \div 4 + 1
        r == ((Len(vals) - 1) * k) % 4
    IN IF r = 0 THEN 4 * sorted[lo]
       ELSE 4 * sorted[lo] + r * (sorted[lo + 1] - sorted[lo])

OutsideOrOnBounds(v, lower8, upper8) == 8 * v <= lower8 \/ 8 * v >= upper8

(* line 61, the bounds being given times 8 *)
OutsideBounds(v, lower8, upper8) == 8 * v < lower8 \/ 8 * v > upper8

(* lines 50-63; the empty frame returned for a table without rows has no   *)
(* rows either                                                             *)
detect_outliers_iqr(df) ==
    IF Len(df) = 0 THEN <<>>
    ELSE LET vals == [i \in 1..Len(df) |-> df[i].Value]
             Q1 == Quantile4(vals, 1)
             Q3 == Quantile4(vals, 3)
             IQR == Q3 - Q1
         IN SelectSeq(df, LAMBDA row :
                OutsideBounds(row.Value, 2 * Q1 - 3 * IQR, 2 * Q3 + 3 * IQR))

CallValidateStructure ==
    /\ dOut.calls < MaxCalls
    /\ dOut' = [dOut EXCEPT !.op = "validate_data_structure",
                            !.seen = @ \cup {"validate_data_structure"},
                            !.calls = @ + 1,
                            !.valid = validate_data_structure(dDf)]
    /\ UNCHANGED dDf
    /\ UNCHANGED <<pipeVars, textVars, visVars, csvVars, wtVars, moreVars>>

CallTemporalConsistency ==
    /\ dOut.calls < MaxCalls
    /\ dOut' = [dOut EXCEPT !.op = "check_temporal_consistency",
                            !.seen = @ \cup {"check_temporal_consistency"},
                            !.calls = @ + 1,
                            !.gaps = check_temporal_consistency(dDf)]
    /\ UNCHANGED dDf
    /\ UNCHANGED <<pipeVars, textVars, visVars, csvVars, wtVars, moreVars>>

CallDetectOutliersDropping ==
    /\ dOut.calls < MaxCalls
    /\ dOut' = [dOut EXCEPT !.op = "detect_outliers_iqr",
                            !.seen = @ \cup {"detect_outliers_iqr"},
                            !.calls = @ + 1,
                            !.outliers = detect_outliers_iqr(dDf)]
    /\ dDf' = SelectSeq(dDf, LAMBDA row :
                  \A i \in 1..Len(detect_outliers_iqr(dDf)) : detect_outliers_iqr(dDf)[i] # row)
    /\ UNCHANGED <<pipeVars, textVars, visVars, csvVars, wtVars, moreVars>>

CallDetectOutliers ==
    /\ dOut.calls < MaxCalls
    /\ dOut' = [dOut EXCEPT !.op = "detect_outliers_iqr",
                            !.seen = @ \cup {"detect_outliers_iqr"},
                            !.calls = @ + 1,
                            !.outliers = detect_outliers_iqr(dDf)]
    /\ UNCHANGED dDf
    /\ UNCHANGED <<pipeVars, textVars, visVars, csvVars, wtVars, moreVars>>

(* the tables: any years with one value, and one year with any values *)
InitDiag ==
    /\ \/ dDf \in SeqsUpTo([Year : {1990, 1991, 1993, 1995}, Value : {0}], MaxDiagRows)
       \/ dDf \in SeqsUpTo([Year : {1990}, Value : {0, 1, 5, 6}], MaxDiagRows)
    /\ dOut = [op |-> "none", seen |-> {}, calls |-> 0, valid |-> FALSE,
               gaps |-> <<>>, outliers |-> <<>>]
    /\ PipeIdle
    /\ TextIdle
    /\ VisIdle
    /\ CsvIdle
    /\ WasteTextIdle
    /\ MoreIdle

NextDiag ==
    \/ CallValidateStructure
    \/ CallTemporalConsistency
    \/ CallDetectOutliers

SpecDiag == InitDiag /\ [][NextDiag]_vars

C11_Years == {dDf[i].Year : i \in 1..Len(dDf)}
C11_Adjacent(a, b) ==
    /\ a \in C11_Years
    /\ b \in C11_Years
    /\ a < b
    /\ ~\E c \in C11_Years : a < c /\ c < b

(* C11: check_temporal_consistency returns exactly the pairs (y1, y2) of   *)
(* adjacent distinct years with y2 - y1 > 1, each once and in rising       *)
(* order: nothing for a table without rows or with consecutive years, and  *)
(* exactly (1991, 1995) for the years 1990, 1991, 1995.                    *)
C11_GapsExact ==
    dOut.op = "check_temporal_consistency" =>
        LET res == dOut.gaps
        IN /\ \A k \in 1..Len(res) :
                 /\ C11_Adjacent(res[k][1], res[k][2])
                 /\ res[k][2] - res[k][1] > 1
           /\ \A a \in C11_Years, b \in C11_Years :
                 (C11_Adjacent(a, b) /\ b - a > 1) =>
                     \E k \in 1..Len(res) : res[k] = <<a, b>>
           /\ \A k \in 1..Len(res), l \in 1..Len(res) : k < l => res[k][1] < res[l][1]
           /\ (\A a \in C11_Years, b \in C11_Years : C11_Adjacent(a, b) => b = a + 1)
                 => res = <<>>
           /\ C11_Years = {1990, 1991, 1995} => res = << <<1991, 1995>> >>

C11_Witness ==
    /\ dOut.op = "check_temporal_consistency"
    /\ Len(dDf) = 4
    /\ C11_Years = {1990, 1991, 1995}
    /\ dOut.gaps = << <<1991, 1995>> >>

----------------------------------------------------------------------------
(* Persistence and reload: DataFrame.to_csv(path, index=False) of          *)
(* data_prep.py lines 141 and 282, pd.read_csv(path) of dashboard.py lines *)
(* 82-83 and vis.py lines 232-233.                                         *)
(*                                                                         *)
(* A text is a sequence of characters.  A cell is a string ("str", its     *)
(* text in s), a missing value ("nan"), an integer ("int", in n) or a      *)
(* float ("float", in v, counted in sixtieths).  The integers are not      *)
(* negative and the floats have a finite decimal expansion.                *)

MaxCsvRows == 2

StrVal(t) == [k |-> "str", s |-> t, n |-> 0, v |-> 0]
NanVal == [k |-> "nan", s |-> <<>>, n |-> 0, v |-> 0]
IntVal(x) == [k |-> "int", s |-> <<>>, n |-> x, v |-> 0]
FloatVal(x) == [k |-> "float", s |-> <<>>, n |-> 0, v |-> x]

DigitChars == <<"0", "1", "2", "3", "4", "5", "6", "7", "8", "9">>
DigitChar(d) == DigitChars[d + 1]
IsDigit(c) == \E d \in 0..9 : DigitChars[d + 1] = c
DigitVal(c) == CHOOSE d \in 0..9 : DigitChars[d + 1] = c

(* str() of an int64 *)
RECURSIVE IntText(_)
IntText(x) ==
    IF x < 10 THEN <<DigitChar(x)>>
    ELSE IntText(x \div 10) \o <<DigitChar(x % 10)>>

(* repr() of a float64: the integer part, the point, and the decimals,     *)
(* "0" when there are none                                                 *)
RECURSIVE FracText(_)
FracText(r) ==
    IF r = 0 THEN <<>>
    ELSE <<DigitChar((r * 10) \div 60)>> \o FracText((r * 10) % 60)

FloatText(x) ==
    IntText(x \div 60) \o <<".">> \o (IF x % 60 = 0 THEN <<"0">> ELSE FracText(x % 60))

(* the csv writer (QUOTE_MINIMAL): a field that holds the delimiter or the *)
(* quote character is put between quotes, its quotes doubled               *)
RECURSIVE DoubleQuotes(_)
DoubleQuotes(t) ==
    IF t = <<>> THEN <<>>
    ELSE (IF Head(t) = QUOTE THEN <<QUOTE, QUOTE>> ELSE <<Head(t)>>) \o DoubleQuotes(Tail(t))

NeedsQuotes(t) == \E i \in 1..Len(t) : t[i] \in {QUOTE, ",", CR, LF}

(* to_csv of one cell; a missing value is written as the empty field *)
CsvField(c) ==
    CASE c.k = "nan" -> <<>>
      [] c.k = "int" -> IntText(c.n)
      [] c.k = "float" -> FloatText(c.v)
      [] OTHER -> IF NeedsQuotes(c.s) THEN <<QUOTE>> \o DoubleQuotes(c.s) \o <<QUOTE>>
                  ELSE c.s

(* to_csv(path, index=False): the header, then one line of fields per row *)
to_csv(df) ==
    [written |-> TRUE,
     header |-> df.cols,
     lines |-> [i \in 1..Len(df.rows) |->
                   [j \in 1..Len(df.cols) |-> CsvField(df.rows[i][j])]]]

(* the csv reader: a field between quotes loses them, its doubled quotes   *)
(* become one                                                              *)
RECURSIVE UndoubleQuotes(_)
UndoubleQuotes(t) ==
    IF t = <<>> THEN <<>>
    ELSE IF Len(t) >= 2 /\ t[1] = QUOTE /\ t[2] = QUOTE
         THEN <<QUOTE>> \o UndoubleQuotes(Tail(Tail(t)))
         ELSE <<Head(t)>> \o UndoubleQuotes(Tail(t))

FieldText(f) ==
    IF Len(f) >= 2 /\ f[1] = QUOTE /\ f[Len(f)] = QUOTE
    THEN UndoubleQuotes(SubSeq(f, 2, Len(f) - 1))
    ELSE f

(* the strings read_csv takes for a missing value by default *)
NaStrings ==
    { <<>>,
      <<"#", "N", "/", "A">>,
      <<"#", "N", "/", "A", " ", "N", "/", "A">>,
      <<"#", "N", "A">>,
      <<"-", "1", ".", "#", "I", "N", "D">>,
      <<"-", "1", ".", "#", "Q", "N", "A", "N">>,
      <<"-", "N", "a", "N">>,
      <<"-", "n", "a", "n">>,
      <<"1", ".", "#", "I", "N", "D">>,
      <<"1", ".", "#", "Q", "N", "A", "N">>,
      <<"<", "N", "A", ">">>,
      <<"N", "/", "A">>,
      <<"N", "A">>,
      <<"N", "U", "L", "L">>,
      <<"N", "a", "N">>,
      <<"N", "o", "n", "e">>,
      <<"n", "/", "a">>,
      <<"n", "a", "n">>,
      <<"n", "u", "l", "l">> }

IsNa(t) == t \in NaStrings

IsIntText(t) == Len(t) > 0 /\ \A i \in 1..Len(t) : IsDigit(t[i])

IsFloatText(t) ==
    \E p \in 1..Len(t) :
        /\ t[p] = "."
        /\ IsIntText(SubSeq(t, 1, p - 1))
        /\ IsIntText(SubSeq(t, p + 1, Len(t)))

RECURSIVE ParseInt(_)
ParseInt(t) ==
    IF t = <<>> THEN 0
    ELSE ParseInt(SubSeq(t, 1, Len(t) - 1)) * 10 + DigitVal(t[Len(t)])

RECURSIVE PowerOfTen(_)
PowerOfTen(e) == IF e = 0 THEN 1 ELSE 10 * PowerOfTen(e - 1)

ParseFloat(t) ==
    LET p == CHOOSE q \in 1..Len(t) : t[q] = "."
        frac == SubSeq(t, p + 1, Len(t))
    IN ParseInt(SubSeq(t, 1, p - 1)) * 60 + (ParseInt(frac) * 60) \div PowerOfTen(Len(frac))

(* the type read_csv infers for a column: integers when every field is an  *)
(* integer, floats when every field is a number or missing, strings (with  *)
(* missing values) otherwise and for a column without rows                 *)
ColumnKind(texts) ==
    IF texts = {} THEN "str"
    ELSE IF \A t \in texts : IsIntText(t) THEN "int"
    ELSE IF \A t \in texts : IsIntText(t) \/ IsFloatText(t) \/ IsNa(t) THEN "float"
    ELSE "str"

ReadCell(kind, t) ==
    IF IsNa(t) THEN NanVal
    ELSE CASE kind = "int" -> IntVal(ParseInt(t))
           [] kind = "float" -> IF IsIntText(t) THEN FloatVal(ParseInt(t) * 60)
                                ELSE FloatVal(ParseFloat(t))
           [] OTHER -> StrVal(t)

(* pd.read_csv(path) *)
read_csv(file) ==
    LET text(i, j) == FieldText(file.lines[i][j])
        kind(j) == ColumnKind({text(i, j) : i \in 1..Len(file.lines)})
    IN [read |-> TRUE,
        cols |-> file.header,
        rows |-> [i \in 1..Len(file.lines) |->
                     [j \in 1..Len(file.header) |-> ReadCell(kind(j), text(i, j))]]]

(* line 141, line 282 *)
ToCsv ==
    /\ ~cFile.written
    /\ cFile' = to_csv(cDf)
    /\ UNCHANGED <<cDf, cBack>>
    /\ UNCHANGED <<pipeVars, textVars, visVars, diagVars, wtVars, moreVars>>

(* dashboard.py lines 82-83 *)
LoadData ==
    /\ cFile.written
    /\ ~cBack.read
    /\ cBack' = read_csv(cFile)
    /\ UNCHANGED <<cDf, cFile>>
    /\ UNCHANGED <<pipeVars, textVars, visVars, diagVars, wtVars, moreVars>>

(* the tables the script can hand to to_csv.  Recycling: Country and Code  *)
(* as read_csv gave them, Year an integer, RecyclingRate a float.  Waste:  *)
(* Entity and Code tokens of a segment, Code being any text without an     *)
(* upper-case letter, Year an integer, TotalWaste a float.                 *)
CsvRecRows ==
    {<<a, b, IntVal(1990), d>> :
        a \in {StrVal(<<"A", "a">>), StrVal(<<"A", ",", QUOTE, "a">>), NanVal},
        b \in {StrVal(<<"A", "A">>), NanVal},
        d \in {FloatVal(600), FloatVal(1050)}}
CsvWasteRows ==
    {<<StrVal(<<"A", "a">>), b, c, d>> :
        b \in {StrVal(<<"f", "r">>), StrVal(<<"n", "u", "l", "l">>), StrVal(<<"0", "0", "7">>)},
        c \in {IntVal(1990), IntVal(2000)},
        d \in {FloatVal(600), FloatVal(1050)}}

InitCsv ==
    /\ \/ \E r \in SeqsUpTo(CsvRecRows, MaxCsvRows) : cDf = [cols |-> RecColumns, rows |-> r]
       \/ \E r \in SeqsUpTo(CsvWasteRows, MaxCsvRows) : cDf = [cols |-> WasteColumns, rows |-> r]
    /\ cFile = [written |-> FALSE, header |-> <<>>, lines |-> <<>>]
    /\ cBack = [read |-> FALSE, cols |-> <<>>, rows |-> <<>>]
    /\ PipeIdle
    /\ TextIdle
    /\ VisIdle
    /\ DiagIdle
    /\ WasteTextIdle
    /\ MoreIdle

NextCsv ==
    \/ ToCsv
    \/ LoadData

SpecCsv == InitCsv /\ [][NextCsv]_vars

C13_SameValue(a, b) ==
    \/ a.k = "nan" /\ b.k = "nan"
    \/ a.k = "str" /\ b.k = "str" /\ a.s = b.s
    \/ a.k = "int" /\ b.k = "int" /\ a.n = b.n
    \/ a.k = "float" /\ b.k = "float" /\ a.v = b.v
    \/ a.k = "int" /\ b.k = "float" /\ a.n * 60 = b.v
    \/ a.k = "float" /\ b.k = "int" /\ a.v = b.n * 60

(* C13: the table read back from the CSV file of a cleaned dataset has the *)
(* rows, the columns and, cell by cell, the values of the table that was   *)
(* written, for every table the script can write, one without rows         *)
(* included.                                                               *)
C13_RoundTrip ==
    cBack.read =>
        /\ Len(cBack.rows) = Len(cDf.rows)
        /\ cBack.cols = cDf.cols
        /\ \A i \in 1..Len(cDf.rows) : \A j \in 1..Len(cDf.cols) :
              C13_SameValue(cDf.rows[i][j], cBack.rows[i][j])

----------------------------------------------------------------------------
(* Waste text repair and row reconstruction, data_prep.py lines 148-168 *)

Whitespace == {" ", "\t", CR, LF}
UpperCase == {"A", "B", "C", "D", "E", "F", "G", "H", "I", "J", "K", "L", "M",
              "N", "O", "P", "Q", "R", "S", "T", "U", "V", "W", "X", "Y", "Z"}

(* str.strip() *)
RECURSIVE LStrip(_)
LStrip(t) == IF t # <<>> /\ Head(t) \in Whitespace THEN LStrip(Tail(t)) ELSE t

RECURSIVE RStripSpace(_)
RStripSpace(t) ==
    IF t # <<>> /\ t[Len(t)] \in Whitespace
    THEN RStripSpace(SubSeq(t, 1, Len(t) - 1))
    ELSE t

Strip(t) == RStripSpace(LStrip(t))

(* str.replace(old, new) for an old of two characters a b: the text is     *)
(* read from the left, a match is replaced and the reading goes on after   *)
(* it                                                                      *)
RECURSIVE Replace2(_, _, _, _)
Replace2(t, a, b, new) ==
    IF t = <<>> THEN <<>>
    ELSE IF Len(t) >= 2 /\ t[1] = a /\ t[2] = b
         THEN new \o Replace2(SubSeq(t, 3, Len(t)), a, b, new)
         ELSE <<Head(t)>> \o Replace2(Tail(t), a, b, new)

(* str.replace(old, new) for single characters *)
Replace1(t, a, new) == [i \in 1..Len(t) |-> IF t[i] = a THEN new ELSE t[i]]

(* line 153 *)
ReplaceAll(line) ==
    Replace1(Replace2(Replace2(line, QUOTE, QUOTE, <<QUOTE>>), ";", QUOTE, <<QUOTE>>),
             ";", ",")

(* lines 154-155: no test on the length, a line that is one quote matches *)
WasteUnquote(line) ==
    IF line # <<>> /\ line[1] = QUOTE /\ line[Len(line)] = QUOTE
    THEN SubSeq(line, 2, Len(line) - 1)
    ELSE line

(* lines 152-155 *)
CleanWasteLine(line) == WasteUnquote(ReplaceAll(Strip(line)))

(* line 159: "\n".join(cleaned_lines) *)
RECURSIVE Join(_)
Join(ls) ==
    IF ls = <<>> THEN <<>>
    ELSE IF Len(ls) = 1 THEN ls[1]
    ELSE ls[1] \o <<LF>> \o Join(Tail(ls))

RECURSIVE LowerRunToLineEnd(_)
LowerRunToLineEnd(t) ==
    IF t = <<>> \/ Head(t) = LF THEN <<>>
    ELSE <<Head(t)>> \o LowerRunToLineEnd(Tail(t))

(* the longest run of characters that are no upper-case letter at the      *)
(* start of t                                                              *)
RECURSIVE LowerRun(_)
LowerRun(t) ==
    IF t = <<>> \/ Head(t) \in UpperCase THEN <<>>
    ELSE <<Head(t)>> \o LowerRun(Tail(t))

(* line 161: re.findall(r'([A-Z][^A-Z]+)', raw_text), the matches found    *)
(* from the left, each search starting where the last match ended          *)
RECURSIVE FindAll(_)
FindAll(t) ==
    IF t = <<>> THEN <<>>
    ELSE IF Head(t) \in UpperCase /\ LowerRun(Tail(t)) # <<>>
         THEN LET run == LowerRun(Tail(t))
              IN <<(<<Head(t)>> \o run)>> \o FindAll(SubSeq(t, Len(run) + 2, Len(t)))
         ELSE FindAll(Tail(t))

(* row.split(",") *)
RECURSIVE Split(_, _)
Split(t, cur) ==
    IF t = <<>> THEN <<cur>>
    ELSE IF Head(t) = "," THEN <<cur>> \o Split(Tail(t), <<>>)
    ELSE Split(Tail(t), Append(cur, Head(t)))

(* line 165 *)
Tokens(row) ==
    LET pieces == Split(row, <<>>)
        stripped == [i \in 1..Len(pieces) |-> Strip(pieces[i])]
    IN SelectSeq(stripped, LAMBDA q : q # <<>>)

FirstTokensAll(ps) == ps

(* line 167: parts[:10] *)
FirstTokens(ps) == SubSeq(ps, 1, MinOf(Len(ps), MaxTokens))

(* lines 151-156: one pass of the cleaning loop *)
CleanLine ==
    /\ wpc = "clean"
    /\ wi < Len(ReadLines(wasteText))
    /\ cleaned_lines' = Append(cleaned_lines, CleanWasteLine(ReadLines(wasteText)[wi + 1]))
    /\ wi' = wi + 1
    /\ UNCHANGED <<wasteText, wpc, raw_text, wRows, ri, parts, wData>>
    /\ UNCHANGED <<pipeVars, textVars, visVars, diagVars, csvVars, moreVars>>

(* lines 159-164 *)
FindRows ==
    /\ wpc = "clean"
    /\ wi = Len(ReadLines(wasteText))
    /\ raw_text' = Join(cleaned_lines)
    /\ wRows' = FindAll(Join(cleaned_lines))
    /\ wpc' = "build"
    /\ UNCHANGED <<wasteText, wi, cleaned_lines, ri, parts, wData>>
    /\ UNCHANGED <<pipeVars, textVars, visVars, diagVars, csvVars, moreVars>>

(* lines 165-168: one pass of the token loop *)
BuildRow ==
    /\ wpc = "build"
    /\ ri < Len(wRows)
    /\ parts' = Tokens(wRows[ri + 1])
    /\ wData' = IF Len(Tokens(wRows[ri + 1])) >= MinTokens
               THEN Append(wData, FirstTokens(Tokens(wRows[ri + 1])))
               ELSE wData
    /\ ri' = ri + 1
    /\ UNCHANGED <<wasteText, wi, cleaned_lines, wpc, raw_text, wRows>>
    /\ UNCHANGED <<pipeVars, textVars, visVars, diagVars, csvVars, moreVars>>

(* an upper-case letter followed by n tokens *)
RECURSIVE LongSegment(_)
LongSegment(n) == IF n = 0 THEN <<"A">> ELSE LongSegment(n - 1) \o <<",", "a">>

LongTexts ==
    {LongSegment(n) : n \in 0..(MaxTokens + 1)} \cup
    {LongSegment(n) \o LongSegment(m) : n \in 0..(MaxTokens + 1), m \in 0..(MaxTokens + 1)}

(* the source files: any short text with quotes and semicolons, any short  *)
(* text with upper-case letters and commas, the texts with segments of up  *)
(* to 12 tokens, and lines with an entity of one or two capitalised words, *)
(* a code in lower or upper case and two or three more tokens              *)
InitWasteText ==
    /\ \/ wasteText \in SeqsUpTo({QUOTE, ";", "a", " ", LF}, MaxTextLen)
       \/ wasteText \in SeqsUpTo({"A", "a", ",", " ", LF}, MaxTextLen)
       \/ wasteText \in LongTexts
       \/ wasteText \in
             {entity \o <<",">> \o code \o rest :
                entity \in {<<"A", "a">>, <<"A", "a", " ", "A", "a">>, <<"A", "a", "A", "a">>},
                code \in {<<"a">>, <<"A", "a">>, <<"A", "A">>, <<"a", "A">>},
                rest \in {<<",", "a", ",", "a">>, <<",", "a", ",", "a", ",", "a">>}}
    /\ wi = 0
    /\ cleaned_lines = <<>>
    /\ wpc = "clean"
    /\ raw_text = <<>>
    /\ wRows = <<>>
    /\ ri = 0
    /\ parts = <<>>
    /\ wData = <<>>
    /\ PipeIdle
    /\ TextIdle
    /\ VisIdle
    /\ DiagIdle
    /\ CsvIdle
    /\ MoreIdle

NextWasteText ==
    \/ CleanLine
    \/ FindRows
    \/ BuildRow

SpecWasteText == InitWasteText /\ [][NextWasteText]_vars

RECURSIVE C15_Collapse(_)
C15_Collapse(t) ==
    IF Len(t) < 2 THEN t
    ELSE IF t[1] = QUOTE /\ t[2] = QUOTE
         THEN <<QUOTE>> \o C15_Collapse(SubSeq(t, 3, Len(t)))
         ELSE <<t[1]>> \o C15_Collapse(SubSeq(t, 2, Len(t)))

RECURSIVE C15_QuoteSemicolon(_)
C15_QuoteSemicolon(t) ==
    IF Len(t) < 2 THEN t
    ELSE IF t[1] = QUOTE /\ t[2] = ";"
         THEN <<QUOTE>> \o C15_QuoteSemicolon(SubSeq(t, 3, Len(t)))
         ELSE <<t[1]>> \o C15_QuoteSemicolon(SubSeq(t, 2, Len(t)))

C15_Semicolons(t) == [i \in 1..Len(t) |-> IF t[i] = ";" THEN "," ELSE t[i]]

C15_OuterPair(t) ==
    IF t # <<>> /\ t[1] = QUOTE /\ t[Len(t)] = QUOTE
    THEN SubSeq(t, 2, Len(t) - 1)
    ELSE t

(* C15: every line of the waste source, its surrounding white space taken  *)
(* off, is repaired by collapsing every doubled quote to one quote, then   *)
(* replacing every quote followed by a semicolon with a quote, then        *)
(* replacing every semicolon left with a comma, then taking off the outer  *)
(* quotes of a line that starts and ends with a quote; no repaired line    *)
(* holds a semicolon.                                                      *)
C15_LineRepair ==
    \A k \in 1..Len(cleaned_lines) :
        /\ cleaned_lines[k] =
              C15_OuterPair(C15_Semicolons(C15_QuoteSemicolon(C15_Collapse(
                  Strip(ReadLines(wasteText)[k])))))
        /\ \A i \in 1..Len(cleaned_lines[k]) : cleaned_lines[k][i] # ";"

C16_Nth(S, k) == CHOOSE p \in S : Cardinality({q \in S : q <= p}) = k

C16_Starts(t) == {p \in 1..(Len(t) - 1) : t[p] \in UpperCase /\ t[p + 1] \notin UpperCase}

C16_End(t, p) ==
    CHOOSE q \in (p + 1)..Len(t) :
        /\ \A j \in (p + 1)..q : t[j] \notin UpperCase
        /\ q = Len(t) \/ t[q + 1] \in UpperCase

C16_Trimmed(t) ==
    LET ink == {i \in 1..Len(t) : t[i] \notin Whitespace}
    IN IF ink = {} THEN <<>>
       ELSE SubSeq(t, CHOOSE i \in ink : \A j \in ink : i <= j,
                      CHOOSE i \in ink : \A j \in ink : i >= j)

C16_Pieces(row) ==
    LET cuts == {0, Len(row) + 1} \cup {i \in 1..Len(row) : row[i] = ","}
        next(a) == CHOOSE b \in cuts : b > a /\ \A c \in cuts : c > a => b <= c
        piece(a) == C16_Trimmed(SubSeq(row, a + 1, next(a) - 1))
        full == {a \in cuts : a <= Len(row) /\ piece(a) # <<>>}
    IN [k \in 1..Cardinality(full) |-> piece(C16_Nth(full, k))]

C16_Kept == {k \in 1..ri : Len(C16_Pieces(wRows[k])) >= 4}

----------------------------------------------------------------------------
(* Properties of the diagnostic functions *)

C21_Values == [i \in 1..Len(dDf) |-> dDf[i].Value]

(* the j-th smallest value of the column *)
C21_Ranked(j) ==
    CHOOSE v \in {C21_Values[i] : i \in 1..Len(dDf)} :
        /\ Cardinality({i \in 1..Len(dDf) : C21_Values[i] < v}) < j
        /\ Cardinality({i \in 1..Len(dDf) : C21_Values[i] <= v}) >= j

(* 4 times the percentile 25 * k of the column *)
C21_Quartile4(k) ==
    LET m == (Len(dDf) - 1) * k
        below == C21_Ranked(m \div 4 + 1)
        above == IF m % 4 = 0 THEN below ELSE C21_Ranked(m \div 4 + 2)
    IN 4 * below + (m % 4) * (above - below)

C21_Flagged ==
    LET iqr4 == C21_Quartile4(3) - C21_Quartile4(1)
    IN {i \in 1..Len(dDf) :
          \/ 8 * dDf[i].Value < 2 * C21_Quartile4(1) - 3 * iqr4
          \/ 8 * dDf[i].Value > 2 * C21_Quartile4(3) + 3 * iqr4}

(* C21: detect_outliers_iqr returns exactly the rows whose value is below  *)
(* Q1 - 1.5 * IQR or above Q3 + 1.5 * IQR, in their order, Q1 and Q3 being *)
(* the 25th and 75th percentiles of the column; a value equal to a bound   *)
(* is not returned, a table without rows gives nothing, and the table      *)
(* keeps all its rows.                                                     *)
C21_OutliersExact ==
    /\ [](dOut.op = "detect_outliers_iqr" =>
            IF Len(dDf) = 0 THEN dOut.outliers = <<>>
            ELSE /\ Len(dOut.outliers) = Cardinality(C21_Flagged)
                 /\ \A k \in 1..Len(dOut.outliers) :
                       \E i \in C21_Flagged :
                          /\ Cardinality({j \in C21_Flagged : j <= i}) = k
                          /\ dOut.outliers[k] = dDf[i])
    /\ [][dDf' = dDf]_vars

C21_Witness ==
    /\ dOut.op = "detect_outliers_iqr"
    /\ C21_Values = <<6, 0, 1, 0>>
    /\ dOut.outliers = <<dDf[1]>>

(* a value equal to the upper bound: Q1 = 0, Q3 = 2, IQR = 2, bound 5 *)
C21_WitnessOnBound ==
    /\ dOut.op = "detect_outliers_iqr"
    /\ C21_Values = <<0, 0, 1, 5>>
    /\ dOut.outliers = <<>>

(* C22: validate_data_structure, check_temporal_consistency and            *)
(* detect_outliers_iqr leave the table they are given as it is (rows,      *)
(* values, columns, order), and a function called again, after any calls   *)
(* of the three in any order, returns what it returned before.             *)
C22_PureAndRepeatable ==
    [][/\ dDf' = dDf
       /\ "validate_data_structure" \in dOut.seen => dOut'.valid = dOut.valid
       /\ "check_temporal_consistency" \in dOut.seen => dOut'.gaps = dOut.gaps
       /\ "detect_outliers_iqr" \in dOut.seen => dOut'.outliers = dOut.outliers]_vars

(* all three were called, one of them more than once, on a table with an   *)
(* outlier                                                                 *)
C22_Witness ==
    /\ dOut.seen = {"validate_data_structure", "check_temporal_consistency",
                    "detect_outliers_iqr"}
    /\ dOut.calls > Cardinality(dOut.seen)
    /\ dOut.valid
    /\ dOut.outliers # <<>>

----------------------------------------------------------------------------
(* The TotalWaste column, character by character: lines 235-245 applied to *)
(* the fourth token of one reconstructed row.  A row has at least four     *)
(* tokens, so the token is a string: not empty, without commas, without    *)
(* spaces at its ends and without upper-case letters.                      *)

MaxTokenLen == 4

(* line 239: .str.replace of every comma by nothing *)
RemoveCommas(t) == SelectSeq(t, LAMBDA c : c # ",")

(* the digits at the start of t *)
RECURSIVE DigitRun(_)
DigitRun(t) ==
    IF t = <<>> \/ ~IsDigit(Head(t)) THEN <<>>
    ELSE <<Head(t)>> \o DigitRun(Tail(t))

(* line 240: .str.extract(...)[0] with the pattern digits, optional point, *)
(* digits: the first match from the left, which is all the digits of a     *)
(* run, a point if one follows, and all the digits after it; the empty     *)
(* text stands for no match                                                *)
RECURSIVE Extract(_)
Extract(t) ==
    IF t = <<>> THEN <<>>
    ELSE IF IsDigit(Head(t))
         THEN LET whole == DigitRun(t)
                  rest == SubSeq(t, Len(whole) + 1, Len(t))
              IN IF rest # <<>> /\ Head(rest) = "."
                 THEN whole \o <<".">> \o DigitRun(Tail(rest))
                 ELSE whole
         ELSE Extract(Tail(t))

(* line 241: .astype(float); the number is num / 10^scale, NaN for no match *)
AsFloat(m) ==
    IF m = <<>> THEN [k |-> "nan", num |-> 0, scale |-> 0]
    ELSE LET whole == DigitRun(m)
             frac == SubSeq(m, Len(whole) + 2, Len(m))
         IN [k |-> "num", num |-> ParseInt(whole \o frac), scale |-> Len(frac)]

KeepTotalWasteFromZero(v) == (v.k = "num" /\ v.num >= 0) \/ v.k = "nan"

(* line 245: (TotalWaste > 0) | TotalWaste.isna() *)
KeepTotalWaste(v) == (v.k = "num" /\ v.num > 0) \/ v.k = "nan"

(* lines 237-242 *)
ExtractTotalWaste ==
    /\ xVal.stage = "none"
    /\ LET v == AsFloat(Extract(RemoveCommas(xTok)))
       IN xVal' = [stage |-> "cleaned", k |-> v.k, num |-> v.num, scale |-> v.scale,
                   kept |-> TRUE]
    /\ UNCHANGED xTok
    /\ UNCHANGED <<pipeVars, textVars, visVars, diagVars, csvVars, wtVars, loadVars>>

(* line 245 *)
FilterTotalWaste ==
    /\ xVal.stage = "cleaned"
    /\ xVal' = [xVal EXCEPT !.stage = "filtered", !.kept = KeepTotalWaste(xVal)]
    /\ UNCHANGED xTok
    /\ UNCHANGED <<pipeVars, textVars, visVars, diagVars, csvVars, wtVars, loadVars>>

InitExtract ==
    /\ xTok \in {t \in SeqsUpTo({"-", "0", "5", ".", "a", " "}, MaxTokenLen) :
                   t # <<>> /\ t[1] # " " /\ t[Len(t)] # " "}
    /\ xVal = [stage |-> "none", k |-> "nan", num |-> 0, scale |-> 0, kept |-> FALSE]
    /\ PipeIdle
    /\ TextIdle
    /\ VisIdle
    /\ DiagIdle
    /\ CsvIdle
    /\ WasteTextIdle
    /\ LoadIdle

NextExtract ==
    \/ ExtractTotalWaste
    \/ FilterTotalWaste

SpecExtract == InitExtract /\ [][NextExtract]_vars

(* the places of the first number of the token: from its first digit as    *)
(* far as digits and at most one point go on                               *)
C24_Number ==
    IF \A i \in 1..Len(xTok) : ~IsDigit(xTok[i]) THEN {}
    ELSE LET p == CHOOSE i \in 1..Len(xTok) :
                     IsDigit(xTok[i]) /\ \A j \in 1..(i - 1) : ~IsDigit(xTok[j])
             fits(e) == /\ \A j \in p..e : IsDigit(xTok[j]) \/ xTok[j] = "."
                        /\ Cardinality({j \in p..e : xTok[j] = "."}) <= 1
         IN {e \in p..Len(xTok) : fits(e)}

C24_Point == {j \in C24_Number : xTok[j] = "."}

(* the weight of the digit at place j, in units of 10^-scale *)
C24_Weight(j) ==
    PowerOfTen(Cardinality({i \in C24_Number : i > j /\ xTok[i] # "."}))

RECURSIVE C24_Sum(_)
C24_Sum(S) ==
    IF S = {} THEN 0
    ELSE LET j == CHOOSE i \in S : TRUE
         IN (IF xTok[j] = "." THEN 0 ELSE DigitVal(xTok[j]) * C24_Weight(j)) + C24_Sum(S \ {j})

C24_WitnessZero ==
    /\ xTok = <<"-", "0", ".", "0">>
    /\ xVal.stage = "filtered"
    /\ ~xVal.kept

----------------------------------------------------------------------------
(* The dashboard's load_data (dashboard.py, lines 79-132).  A file is      *)
(* missing, present with a table, or present but not readable as a table   *)
(* (an empty file, a directory, no permission): only FileNotFoundError is  *)
(* caught, any other exception leaves load_data.                           *)

MaxLoadRows == 2

Countries ==
    <<"France", "Allemagne", "Italie", "Espagne", "Royaume-Uni", "Pays-Bas", "Belgique",
      "Suisse", "Suède", "Norvège", "Pologne", "Autriche", "Portugal", "Danemark", "Finlande">>

FirstDemoYear == 2000
LastDemoYear == 2020

(* lines 98-129: one row for each country and each year, the countries in  *)
(* their order and the years rising; the values drawn are left out         *)
DemoRows ==
    LET span == LastDemoYear - FirstDemoYear + 1
    IN [i \in 1..(Len(Countries) * span) |->
          [Country |-> Countries[(i - 1) \div span + 1],
           Year |-> FirstDemoYear + ((i - 1) % span)]]

(* line 82 *)
ReadRecycling ==
    /\ lpc = "start"
    /\ IF lRecFile.state = "present"
       THEN /\ lRec' = [origin |-> "file", rows |-> lRecFile.rows]
            /\ lpc' = "recycling_read"
       ELSE /\ lpc' = (IF lRecFile.state = "missing" THEN "not_found" ELSE "raised")
            /\ UNCHANGED lRec
    /\ UNCHANGED <<lRecFile, lWasteFile, lWaste>>
    /\ UNCHANGED <<pipeVars, textVars, visVars, diagVars, csvVars, wtVars, extVars>>

(* lines 83-84 *)
ReadWaste ==
    /\ lpc = "recycling_read"
    /\ IF lWasteFile.state = "present"
       THEN /\ lWaste' = [origin |-> "file", rows |-> lWasteFile.rows]
            /\ lpc' = "loaded"
       ELSE /\ lpc' = (IF lWasteFile.state = "missing" THEN "not_found" ELSE "raised")
            /\ UNCHANGED lWaste
    /\ UNCHANGED <<lRecFile, lWasteFile, lRec>>
    /\ UNCHANGED <<pipeVars, textVars, visVars, diagVars, csvVars, wtVars, extVars>>

generate_demo_data_missing_only ==
    /\ lpc = "not_found"
    /\ lRec' = (IF lRec.origin = "unset" THEN [origin |-> "demo", rows |-> DemoRows] ELSE lRec)
    /\ lWaste' = [origin |-> "demo", rows |-> DemoRows]
    /\ lpc' = "loaded"
    /\ UNCHANGED <<lRecFile, lWasteFile>>
    /\ UNCHANGED <<pipeVars, textVars, visVars, diagVars, csvVars, wtVars, extVars>>

(* lines 85-87 and 89-132: the handler of FileNotFoundError *)
generate_demo_data ==
    /\ lpc = "not_found"
    /\ lRec' = [origin |-> "demo", rows |-> DemoRows]
    /\ lWaste' = [origin |-> "demo", rows |-> DemoRows]
    /\ lpc' = "loaded"
    /\ UNCHANGED <<lRecFile, lWasteFile>>
    /\ UNCHANGED <<pipeVars, textVars, visVars, diagVars, csvVars, wtVars, extVars>>

InitLoad ==
    /\ lRecFile \in [state : {"missing", "unreadable"}, rows : {<<>>}] \cup
                    [state : {"present"},
                     rows : SeqsUpTo([Country : {"France", "Maroc"}, Year : {2000}], MaxLoadRows)]
    /\ lWasteFile \in [state : {"missing", "unreadable"}, rows : {<<>>}] \cup
                      [state : {"present"},
                       rows : SeqsUpTo([Country : {"France", "Maroc"}, Year : {2000}], MaxLoadRows)]
    /\ lpc = "start"
    /\ lRec = [origin |-> "unset", rows |-> <<>>]
    /\ lWaste = [origin |-> "unset", rows |-> <<>>]
    /\ PipeIdle
    /\ TextIdle
    /\ VisIdle
    /\ DiagIdle
    /\ CsvIdle
    /\ WasteTextIdle
    /\ ExtractIdle

NextLoad ==
    \/ ReadRecycling
    \/ ReadWaste
    \/ generate_demo_data

SpecLoad == InitLoad /\ [][NextLoad]_vars

(* C25: once load_data has returned, the recycling and the waste table     *)
(* have one origin: both were read from their files, or, a file being      *)
(* missing, both are the demonstration tables; a table read from a file is *)
(* never left beside a demonstration table.                                *)
C25_SameOrigin ==
    lpc = "loaded" =>
        /\ lRec.origin = lWaste.origin
        /\ lRec.origin \in {"file", "demo"}
        /\ lRec.origin = "file" =>
              /\ lRecFile.state = "present" /\ lRec.rows = lRecFile.rows
              /\ lWasteFile.state = "present" /\ lWaste.rows = lWasteFile.rows
        /\ lRec.origin = "demo" =>
              /\ lRecFile.state = "missing" \/ lWasteFile.state = "missing"
              /\ lRec.rows = DemoRows
              /\ lWaste.rows = DemoRows

(* the recycling file was read, the waste file was missing, and the        *)
(* recycling table read was replaced                                       *)
C25_Witness ==
    /\ lpc = "loaded"
    /\ lRecFile.state = "present"
    /\ lRecFile.rows # <<>>
    /\ lWasteFile.state = "missing"
    /\ lRec.origin = "demo"
    /\ lWaste.origin = "demo"

----------------------------------------------------------------------------
(* The order of the two pipelines of the script *)

C26_RecStages ==
    {"rec_repair", "rec_read", "rec_dedup", "rec_coerce", "rec_impute", "rec_write"}

(* C26: the recycling pipeline has run to its end, recycling_clean         *)
(* written, before the waste source is opened: the script is at a waste    *)
(* stage or beyond only with recycling_clean written; a run ended by a     *)
(* failure of the recycling pipeline (a missing recycling source included) *)
(* has read no waste segment and written no waste_clean; and a missing     *)
(* waste source ends the run with recycling_clean written and no           *)
(* waste_clean.                                                            *)
C26_RecyclingBeforeWaste ==
    /\ pc \notin C26_RecStages \cup {"failed"} => RecOut.written
    /\ ~RecOut.written => ~WasteOut.written /\ df3 = <<>>
    /\ pc = "failed" /\ ~recExists =>
          err = "FileNotFoundError" /\ ~RecOut.written /\ ~fs["data2_cleaned"].written
    /\ ~wasteExists =>
          /\ ~WasteOut.written
          /\ df3 = <<>>
          /\ pc \in C26_RecStages \cup {"waste_repair", "failed"}
          /\ pc = "failed" /\ RecOut.written => err = "FileNotFoundError"

(* a run with a recycling source and no waste source, at its end *)
C26_Witness ==
    /\ recExists
    /\ ~wasteExists
    /\ pc = "failed"
    /\ err = "FileNotFoundError"
    /\ RecOut.written
    /\ RecOut.rows # <<>>
    /\ ~WasteOut.written

(* a run ended by a failure of the recycling pipeline while the waste      *)
(* source is there and holds segments                                      *)
C26_WitnessRecyclingFailed ==
    /\ wasteExists
    /\ wasteInput # <<>>
    /\ pc = "failed"
    /\ ~RecOut.written
    /\ df3 = <<>>

====
